---- MODULE Spec2Model ----
(***************************************************************************)
(* Order / payment relay of src/main.py (FastAPI + SQLAlchemy + YooKassa + *)
(* Telegram).  The model covers the orders table, the remote payment       *)
(* resources, the three request handlers (POST /order, POST /webhook,      *)
(* GET /order/{id}/status) and the lifespan hook that creates the bot.     *)
(* Handlers are split at their outbound calls and commits, so that several *)
(* requests can be in flight at once (several workers on one database).    *)
(***************************************************************************)
EXTENDS Integers, Sequences, FiniteSets, TLC

\* ------------------------------------------------------------------ bounds
MaxOrders == 1
NumWebhookHandlers == 1

WebhookHandlers == 1..NumWebhookHandlers

\* ------------------------------------------------------- small arithmetic
Pow2(n) == IF n = 0 THEN 1 ELSE 2 ^ n
Min(a, b) == IF a < b THEN a ELSE b
Max(a, b) == IF a > b THEN a ELSE b

\* ----------------------------------------------------- webhook IP guard
\* An address is [ver, words]: four 8-bit words for IPv4, eight 16-bit words
\* for IPv6; ver = 0 is a string ipaddress.ip_address() cannot parse.
V4(a, b, c, d) == [ver |-> 4, words |-> <<a, b, c, d>>]
V6(a, b, h) == [ver |-> 6, words |-> <<a, b, 0, 0, 0, 0, 0, h>>]
BadAddr == [ver |-> 0, words |-> <<>>]
Net(addr, prefix) == [ver |-> addr.ver, words |-> addr.words, prefix |-> prefix]
WordBits(ver) == IF ver = 4 THEN 8 ELSE 16

YOOKASSA_IPS ==
    << Net(V4(185, 71, 76, 0), 27),
       Net(V4(185, 71, 77, 0), 27),
       Net(V4(77, 75, 153, 0), 25),
       Net(V4(77, 75, 156, 11), 32),
       Net(V4(77, 75, 156, 35), 32),
       Net(V4(77, 75, 154, 128), 25),
       Net(V6(10754, 20864, 0), 32) >>

\* `ip_obj in network`: same version and equal on the first `prefix` bits.
InNetwork(ip, net) ==
    /\ ip.ver = net.ver
    /\ \A i \in 1..Len(net.words) :
          LET w == WordBits(net.ver)
              bits == Min(w, Max(0, net.prefix - w * (i - 1)))
              shift == Pow2(w - bits)
          IN  (ip.words[i] \div shift) = (net.words[i] \div shift)

is_yookassa_ip(ip) ==
    IF ip.ver = 0
    THEN FALSE
    ELSE \E k \in 1..Len(YOOKASSA_IPS) : InNetwork(ip, YOOKASSA_IPS[k])

SampleIPs ==
    { V4(185, 71, 76, 31), V4(185, 71, 76, 32),
      V4(77, 75, 156, 11), V4(77, 75, 156, 12),
      V6(10754, 20864, 1), V6(10754, 20865, 1),
      BadAddr }
NoAddr == [ver |-> -1, words |-> <<>>]

\* ------------------------------------------------- request body validation
\* EmailStr: exactly one "@", a non-empty local part, a dotted domain whose
\* labels are non-empty.  An email is a sequence of characters.
AtPositions(e) == { i \in 1..Len(e) : e[i] = "@" }
EmailStr(e) ==
    /\ Cardinality(AtPositions(e)) = 1
    /\ LET at == CHOOSE i \in AtPositions(e) : TRUE
       IN  /\ at > 1
           /\ \E d \in (at + 2)..(Len(e) - 1) : e[d] = "."
           /\ e[at + 1] # "."
           /\ e[Len(e)] # "."

SampleEmails ==
    { <<"a", "@", "b", ".", "c">>,
      <<"a", "b", ".", "c">>,
      <<"@", "b", ".", "c">>,
      <<"a", "@", "b">> }
SampleItems ==
    { <<>>, << [name |-> "Widget", quantity |-> 2] >> }

\* OrderCreate: the request model FastAPI validates before create_order runs.
OrderCreate(req) == EmailStr(req.email)

\* YooKassaNotification(**notification_data): type, event, object required.
BodyShapes == {"notification", "other_type", "malformed"}
YooKassaNotification(shape) == shape # "malformed"

Events == {"payment.succeeded", "payment.waiting_for_capture",
           "payment.canceled", "refund.succeeded"}
\* payment_data has "capture": True, so a payment is never left waiting for
\* capture: it is pending until it succeeds or is canceled.
GatewayStatuses == {"pending", "succeeded", "canceled"}
ClaimedStatuses == {"pending", "succeeded"}

\* ------------------------------------------------------------------ state
VARIABLES
    started,        \* lifespan startup has run
    telegram_bot,   \* TRUE: a Bot object, FALSE: None
    orders,         \* the orders table; a row's id is its index
    payments,       \* remote payment resources; a payment's id is its index
    co,             \* the create_order handler in flight
    wh,             \* yookassa_webhook handlers in flight
    response        \* the HTTP response (and log line) of the last step, if any

vars == <<started, telegram_bot, orders, payments, co, wh, response>>

NoPayment == 0
NoOrder == 0

OrderIds == 1..Len(orders)
PaymentIds == 1..Len(payments)

\* class Order: status defaults to "created", payment_id is nullable.
Order(req) ==
    [email |-> req.email, items |-> req.items,
     status |-> "created", payment_id |-> NoPayment]

IdleCreate == [pc |-> "idle", order |-> NoOrder, payment |-> NoPayment]
IdleWebhook ==
    [pc |-> "idle", pid |-> NoPayment, claimed |-> "pending",
     order |-> NoOrder, loaded |-> "created", gw |-> "pending"]

NoResponse ==
    [handler |-> "none", code |-> 0, unauthorized_ip |-> NoAddr,
     event |-> "", notify |-> "", order_id |-> NoOrder, status |-> "",
     payment_id |-> NoPayment]

Init ==
    /\ started = FALSE
    /\ telegram_bot = FALSE
    /\ orders = <<>>
    /\ payments = <<>>
    /\ co = IdleCreate
    /\ wh = [w \in WebhookHandlers |-> IdleWebhook]
    /\ response = NoResponse

\* lifespan: Bot(token=...) either yields a bot or raises and leaves None.
lifespan ==
    /\ ~started
    /\ started' = TRUE
    /\ telegram_bot' \in BOOLEAN
    /\ response' = NoResponse
    /\ UNCHANGED <<orders, payments, co, wh>>

\* ------------------------------------------------------------ persistence
\* db.query(Order).filter(Order.payment_id == id).first()
FindByPaymentId(rows, id) ==
    LET hits == { o \in 1..Len(rows) : rows[o].payment_id = id }
    IN  IF hits = {} THEN NoOrder
        ELSE CHOOSE o \in hits : \A q \in hits : o <= q

\* order.status = new; db.commit(): the unit of work emits
\* UPDATE orders SET status = new WHERE id = o only when new differs from the
\* value the session loaded.
SetStatus(rows, o, loaded, new) ==
    IF loaded = new THEN rows ELSE [rows EXCEPT ![o].status = new]

\* A variant that forgets to store the payment reference.
AttachPaymentLost(rows, o, ref) == rows

\* db_order.payment_id = payment.id; db.commit()
AttachPayment(rows, o, ref) == [rows EXCEPT ![o].payment_id = ref]

\* A variant with a compensating deletion of the order row.
RollbackDeletes(rows, o) ==
    [i \in 1..(Len(rows) - 1) |-> IF i < o THEN rows[i] ELSE rows[i + 1]]

\* db.rollback() in create_order's except clause: the INSERT was committed
\* before the gateway call, so nothing is pending and no row is removed.
Rollback(rows, o) == rows

\* except Exception -> HTTPException(status_code=500), one clause per handler.
create_order_except(raised) == 500
yookassa_webhook_except(raised) == 500
get_order_status_except(raised) == 500

\* A variant that trusts the status carried by the notification.
PaymentConfirmedByPayload(gw, claimed) == claimed = "succeeded"

\* if yookassa_payment.status == "succeeded"
PaymentConfirmed(gw, claimed) == gw = "succeeded"

\* A variant that lets a failed send_message escape to the outer handler.
NotifyCodeSurfaced(outcome) == IF outcome = "sent" THEN 200 ELSE 500

\* The notification block answers {"status": "ok"} whatever send_message did.
NotifyCode(outcome) == 200

Reply(handler, code) ==
    [NoResponse EXCEPT !.handler = handler, !.code = code]

\* ---------------------------------------------------------- POST /order
\* One submission is in flight at a time: submissions touch disjoint rows.
OrderRequests == [email : SampleEmails, items : SampleItems]

\* Request validation, then lines 181-195: INSERT, commit, refresh.
create_order_insert(req) ==
    /\ started
    /\ co.pc = "idle"
    /\ IF ~OrderCreate(req)
       THEN /\ response' = Reply("create_order", 422)
            /\ UNCHANGED <<orders, co>>
       ELSE /\ Len(orders) < MaxOrders
            /\ orders' = Append(orders, Order(req))
            /\ co' = [pc |-> "create_payment", order |-> Len(orders) + 1,
                      payment |-> NoPayment]
            /\ response' = NoResponse
    /\ UNCHANGED <<started, telegram_bot, payments, wh>>

\* Line 211: yookassa.Payment.create returns a fresh payment, whose
\* description names the order, or raises.
create_order_payment(ok) ==
    /\ co.pc = "create_payment"
    /\ IF ok
       THEN /\ payments' = Append(payments, [order |-> co.order,
                                             status |-> "pending"])
            /\ co' = [co EXCEPT !.pc = "attach",
                                !.payment = Len(payments) + 1]
            /\ response' = NoResponse
            /\ UNCHANGED orders
       ELSE /\ orders' = Rollback(orders, co.order)
            /\ co' = IdleCreate
            /\ response' = [Reply("create_order", create_order_except(0))
                               EXCEPT !.order_id = co.order]
            /\ UNCHANGED payments
    /\ UNCHANGED <<started, telegram_bot, wh>>

\* Lines 214-220: store the payment id, commit, answer 200.
create_order_attach ==
    /\ co.pc = "attach"
    /\ orders' = AttachPayment(orders, co.order, co.payment)
    /\ co' = IdleCreate
    /\ response' = [Reply("create_order", 200)
                       EXCEPT !.order_id = co.order,
                              !.payment_id = co.payment]
    /\ UNCHANGED <<started, telegram_bot, payments, wh>>

\* The remote payment moves on at the gateway (the customer pays or gives up).
GatewayAdvance(p, s) ==
    /\ p \in PaymentIds
    /\ payments[p].status = "pending"
    /\ s # "pending"
    /\ payments' = [payments EXCEPT ![p].status = s]
    /\ response' = NoResponse
    /\ UNCHANGED <<started, telegram_bot, orders, co, wh>>

\* --------------------------------------------------------- POST /webhook
\* Lines 228-246 and 279-290.  The request is read as the code reads it: the
\* peer address, then the body, then the event, then object["id"].  The
\* payment.succeeded branch stops at the gateway lookup when an order matches.
yookassa_webhook_begin(w) ==
    /\ started
    /\ wh[w].pc = "idle"
    /\ \A v \in WebhookHandlers : v < w => wh[v].pc # "idle"
    /\ \E ip \in SampleIPs :
         IF ~is_yookassa_ip(ip)
         THEN /\ response' = [Reply("webhook", yookassa_webhook_except(403))
                                 EXCEPT !.unauthorized_ip = ip]
              /\ UNCHANGED <<orders, wh>>
         ELSE \E shape \in BodyShapes :
           IF ~YooKassaNotification(shape)
           THEN /\ response' = Reply("webhook", yookassa_webhook_except(422))
                /\ UNCHANGED <<orders, wh>>
           ELSE IF shape # "notification"
           THEN /\ response' = Reply("webhook", yookassa_webhook_except(400))
                /\ UNCHANGED <<orders, wh>>
           ELSE \E event \in Events :
             IF event \notin {"payment.succeeded", "payment.canceled"}
             THEN /\ response' = [Reply("webhook", 200) EXCEPT !.event = event]
                  /\ UNCHANGED <<orders, wh>>
             ELSE \E id \in 1..MaxOrders :
               LET o == FindByPaymentId(orders, id)
                   ok == [Reply("webhook", 200)
                             EXCEPT !.event = event, !.payment_id = id]
               IN  IF o = NoOrder
                   THEN /\ response' = ok
                        /\ UNCHANGED <<orders, wh>>
                   ELSE IF event = "payment.canceled"
                   THEN /\ orders' = SetStatus(orders, o, orders[o].status,
                                               "canceled")
                        /\ response' = ok
                        /\ UNCHANGED wh
                   ELSE \E claimed \in ClaimedStatuses :
                        /\ wh' = [wh EXCEPT ![w] =
                                    [pc |-> "find_one", pid |-> id,
                                     claimed |-> claimed, order |-> o,
                                     loaded |-> orders[o].status,
                                     gw |-> "pending"]]
                        /\ response' = NoResponse
                        /\ UNCHANGED orders
    /\ UNCHANGED <<started, telegram_bot, payments, co>>

WebhookReply(w, code) ==
    [Reply("webhook", code) EXCEPT !.event = "payment.succeeded",
                                   !.payment_id = wh[w].pid,
                                   !.order_id = wh[w].order]

\* Lines 250-251: yookassa.Payment.find_one returns the payment's current
\* status or raises.
yookassa_webhook_find_one(w, ok) ==
    /\ wh[w].pc = "find_one"
    /\ IF ~ok
       THEN /\ wh' = [wh EXCEPT ![w] = IdleWebhook]
            /\ response' = WebhookReply(w, yookassa_webhook_except(0))
       ELSE LET gw == payments[wh[w].pid].status
            IN  IF PaymentConfirmed(gw, wh[w].claimed)
                THEN /\ wh' = [wh EXCEPT ![w].pc = "commit", ![w].gw = gw,
                                          ![w].claimed = IdleWebhook.claimed]
                     /\ response' = NoResponse
                ELSE /\ wh' = [wh EXCEPT ![w] = IdleWebhook]
                     /\ response' = WebhookReply(w, 200)
    /\ UNCHANGED <<started, telegram_bot, orders, payments, co>>

\* A variant that refuses to confirm an order it finds already paid.
yookassa_webhook_commit_once(w) ==
    /\ wh[w].pc = "commit"
    /\ IF wh[w].loaded = "paid"
       THEN /\ wh' = [wh EXCEPT ![w] = IdleWebhook]
            /\ response' = WebhookReply(w, yookassa_webhook_except(409))
            /\ UNCHANGED orders
       ELSE /\ orders' = [orders EXCEPT ![wh[w].order].status = "paid"]
            /\ wh' = [wh EXCEPT ![w].pc = "notify"]
            /\ response' = NoResponse
    /\ UNCHANGED <<started, telegram_bot, payments, co>>

\* Lines 252-253: order.status = "paid"; db.commit()
yookassa_webhook_commit(w) ==
    /\ wh[w].pc = "commit"
    /\ orders' = SetStatus(orders, wh[w].order, wh[w].loaded, "paid")
    /\ wh' = [wh EXCEPT ![w].pc = "notify"]
    /\ response' = NoResponse
    /\ UNCHANGED <<started, telegram_bot, payments, co>>

\* Lines 256-290: the Telegram block, then {"status": "ok"}.
yookassa_webhook_notify(w, sent) ==
    /\ wh[w].pc = "notify"
    /\ LET outcome == IF ~telegram_bot THEN "no_bot"
                      ELSE IF sent THEN "sent" ELSE "raised"
       IN  response' = [WebhookReply(w, NotifyCode(outcome))
                           EXCEPT !.notify = outcome]
    /\ wh' = [wh EXCEPT ![w] = IdleWebhook]
    /\ UNCHANGED <<started, telegram_bot, orders, payments, co>>

\* ------------------------------------------- GET /order/{order_id}/status
get_order_status(id) ==
    /\ started
    /\ response' =
         IF id \in OrderIds
         THEN [Reply("get_order_status", 200)
                  EXCEPT !.order_id = id, !.status = orders[id].status,
                         !.payment_id = orders[id].payment_id]
         ELSE [Reply("get_order_status", get_order_status_except(404))
                  EXCEPT !.order_id = id]
    /\ UNCHANGED <<started, telegram_bot, orders, payments, co, wh>>

Next ==
    \/ lifespan
    \/ \E req \in OrderRequests : create_order_insert(req)
    \/ \E ok \in BOOLEAN : create_order_payment(ok)
    \/ create_order_attach
    \/ \E p \in 1..MaxOrders, s \in GatewayStatuses : GatewayAdvance(p, s)
    \/ \E w \in WebhookHandlers : yookassa_webhook_begin(w)
    \/ \E w \in WebhookHandlers, ok \in BOOLEAN : yookassa_webhook_find_one(w, ok)
    \/ \E w \in WebhookHandlers : yookassa_webhook_commit(w)
    \/ \E w \in WebhookHandlers, sent \in BOOLEAN : yookassa_webhook_notify(w, sent)
    \/ \E id \in 1..(MaxOrders + 1) : get_order_status(id)

Spec == Init /\ [][Next]_vars

\* ================================================================ claims
Replied(handler) == response.handler = handler
RepliedNext(handler) == response'.handler = handler
\* Handler w takes a step / handler w answers its request in this step.
Steps(w) == wh'[w] # wh[w]
Answers(w) == wh[w].pc # "idle" /\ wh'[w].pc = "idle"

\* C1: an order's status only ever changes created -> paid or
\* created -> canceled, whatever submissions and webhooks arrive.
C1_OneWayTransitions ==
    [][\A o \in OrderIds :
          orders'[o].status # orders[o].status
              => /\ orders[o].status = "created"
                 /\ orders'[o].status \in {"paid", "canceled"}]_vars

\* C2: a webhook from an address outside the allow-list is answered 403 and
\* changes no order row.
C2_UntrustedRejected403 ==
    [][(/\ RepliedNext("webhook")
        /\ response'.unauthorized_ip \in SampleIPs
        /\ ~is_yookassa_ip(response'.unauthorized_ip))
           => (response'.code = 403 /\ orders' = orders)]_vars

\* C3: a status becomes paid only in the commit of a webhook handler whose
\* own gateway lookup for that order's payment reference returned succeeded;
\* a handler reaches its commit only from such a lookup, and a lookup that
\* fails or returns another status ends the handler with the rows untouched.
C3_PaidOnlyAfterVerification ==
    [][/\ \A o \in OrderIds :
             (orders[o].status # "paid" /\ orders'[o].status = "paid")
                 => \E w \in WebhookHandlers :
                       /\ wh[w].pc = "commit" /\ wh'[w].pc = "notify"
                       /\ wh[w].order = o
                       /\ wh[w].pid = orders[o].payment_id
                       /\ wh[w].gw = "succeeded"
       /\ \A w \in WebhookHandlers :
             /\ (wh'[w].pc = "commit" /\ wh[w].pc # "commit")
                   => /\ wh[w].pc = "find_one"
                      /\ payments[wh[w].pid].status = "succeeded"
                      /\ wh'[w].gw = "succeeded"
             /\ (wh[w].pc = "find_one" /\ Steps(w) /\ wh'[w].pc # "commit")
                   => (orders' = orders /\ wh'[w].pc = "idle")]_vars

\* C3 witness: a handler that found the order created has verified and
\* committed paid.
C3_Witness ==
    \E w \in WebhookHandlers :
        /\ wh[w].pc = "notify"
        /\ wh[w].loaded = "created"
        /\ orders[wh[w].order].status = "paid"

\* C4: a 200 from POST /order names a persisted row that is created and
\* carries the payment reference the gateway issued for that order.
C4_CreatedWithPayment ==
    (Replied("create_order") /\ response.code = 200)
        => /\ response.order_id \in OrderIds
           /\ orders[response.order_id].status = "created"
           /\ orders[response.order_id].payment_id # NoPayment
           /\ orders[response.order_id].payment_id = response.payment_id
           /\ response.payment_id \in PaymentIds
           /\ payments[response.payment_id].order = response.order_id

C4_Witness ==
    /\ Replied("create_order")
    /\ response.code = 200
    /\ orders[response.order_id].payment_id \in PaymentIds

\* C5: a submission with a malformed email or an empty item list never adds
\* an order row.
C5_InvalidNeverPersisted ==
    [][Len(orders') > Len(orders)
          => /\ EmailStr(orders'[Len(orders')].email)
             /\ orders'[Len(orders')].items # <<>>]_vars

\* C6: when payment creation fails after the row was committed, the caller
\* gets an error status and the row stays, created and without payment
\* reference; no row is deleted or changed.
C6_OrphanKept ==
    [][(co.pc = "create_payment" /\ co'.pc = "idle")
          => /\ RepliedNext("create_order")
             /\ response'.code >= 400
             /\ response'.order_id = co.order
             /\ orders' = orders
             /\ co.order \in 1..Len(orders')
             /\ orders'[co.order].status = "created"
             /\ orders'[co.order].payment_id = NoPayment]_vars

C6_Witness ==
    /\ Replied("create_order")
    /\ response.code = 500
    /\ response.order_id \in OrderIds
    /\ orders[response.order_id].payment_id = NoPayment

\* C7 as stated: re-delivery for an order found paid is always acknowledged
\* with 200 and changes no row.
C7_RedeliveryAlwaysAcknowledged ==
    [][\A w \in WebhookHandlers :
          (wh[w].pc # "idle" /\ wh[w].loaded = "paid" /\ Steps(w))
              => /\ orders' = orders
                 /\ Answers(w) => (RepliedNext("webhook")
                                     /\ response'.code = 200)]_vars

\* C7 amended: a handler that found the order paid changes no row in any of
\* its steps, and answers 200 unless its gateway lookup raised, which is
\* answered 500.
C7_RedeliveryIdempotent ==
    [][\A w \in WebhookHandlers :
          (wh[w].pc # "idle" /\ wh[w].loaded = "paid" /\ Steps(w))
              => /\ orders' = orders
                 /\ Answers(w)
                      => /\ RepliedNext("webhook")
                         /\ \/ response'.code = 200
                            \/ wh[w].pc = "find_one" /\ response'.code = 500
                 /\ wh[w].pc \in {"commit", "notify"} /\ Answers(w)
                      => response'.code = 200]_vars

\* C7 witness: a re-delivered confirmation has passed its commit and is about
\* to notify again; the order is still paid.
C7_Witness ==
    \E w \in WebhookHandlers :
        /\ wh[w].pc = "notify"
        /\ wh[w].loaded = "paid"
        /\ orders[wh[w].order].status = "paid"

\* C8: whatever the notification does (sent, raised, no bot), the webhook
\* answers 200 and no order row changes.
C8_NotificationSwallowed ==
    [][\A w \in WebhookHandlers :
          (wh[w].pc = "notify" /\ Steps(w))
              => /\ RepliedNext("webhook")
                 /\ response'.code = 200
                 /\ orders' = orders]_vars

C8_Witness ==
    /\ Replied("webhook")
    /\ response.notify = "raised"
    /\ response.code = 200
    /\ orders[response.order_id].status = "paid"

\* C9: GET /order/{id}/status answers 200 with the row's status and payment
\* reference for a known id, 404 for an unknown id, and changes no row.
C9_StatusLookup ==
    [][RepliedNext("get_order_status")
          => /\ orders' = orders
             /\ IF response'.order_id \in OrderIds
                THEN /\ response'.code = 200
                     /\ response'.status = orders[response'.order_id].status
                     /\ response'.payment_id =
                            orders[response'.order_id].payment_id
                ELSE response'.code = 404]_vars

\* C10: once a payment.succeeded webhook for a payment the gateway reports
\* succeeded has been answered, the order that payment was opened for is paid.
C10_ConfirmedWebhookPays ==
    (/\ Replied("webhook")
     /\ response.event = "payment.succeeded"
     /\ response.code = 200
     /\ response.payment_id \in PaymentIds
     /\ payments[response.payment_id].status = "succeeded")
        => orders[payments[response.payment_id].order].status = "paid"

====
